---- MODULE Spec2Model ----
(***************************************************************************)
(* Model of app.py, the Streamlit page of the red wine quality predictor.  *)
(*                                                                         *)
(* Streamlit executes the script top to bottom once per session start and  *)
(* once more after every widget event:  the widget's new value is written  *)
(* to st.session_state, the widget's on_click callback runs, and then the  *)
(* whole script runs again.  One action of the model is one such event     *)
(* together with the complete script run it causes.                        *)
(*                                                                         *)
(* Measurements are fixed-point integers in units of 0.0001 (7.4 is        *)
(* 74000, 0.9978 is 9978).  Probabilities are integers in units of         *)
(* 0.00001 (1.0 is 100000);  the percentages the page prints with two      *)
(* decimals are integers in units of 0.01 % (100.00 % is 10000).           *)
(***************************************************************************)
EXTENDS Integers, Sequences, FiniteSets, TLC

VARIABLES
    modelFile,   \* state of model.joblib on disk: "ok", "absent", "corrupt"
    scalerFile,  \* state of scaler.joblib on disk
    model,       \* the classifier model.joblib deserializes to
    scaler,      \* the scaler scaler.joblib deserializes to
    session,     \* st.session_state: key -> value, Absent when the key is missing
    event,       \* the event that caused the latest script run
    status,      \* how the latest script run ended
    widgets,     \* TRUE when the latest run rendered the buttons and sliders
    calls,       \* the calls on scaler/model made by the latest run, in order
    handed,      \* the one-row frame the latest run handed to scaler.transform
    pred,        \* what model.predict / model.predict_proba returned in the latest run
    shown,       \* the verdict and confidence lines the latest run displayed
    ranked,      \* the feature_importances frame the latest run built
    nChanges,    \* slider changes made so far in the session
    memo         \* first Predict outcome observed at each of the two example samples

vars == <<modelFile, scalerFile, model, scaler, session, event, status, widgets,
          calls, handed, pred, shown, ranked, nChanges, memo>>

(***************************************************************************)
(* Bounds of the model.                                                    *)
(***************************************************************************)
MaxSliderChanges == 1

(***************************************************************************)
(* Data of the script.                                                     *)
(***************************************************************************)
Absent == -1

\* list(default_values.keys()): the literal key order of the dict
default_values_keys ==
    << "fixed_acidity", "volatile_acidity", "citric_acid", "residual_sugar",
       "chlorides", "free_sulfur_dioxide", "total_sulfur_dioxide", "density",
       "ph", "sulphates", "alcohol" >>

KeySet == { default_values_keys[i] : i \in 1..Len(default_values_keys) }

default_values ==
    ( "fixed_acidity" :> 74000 @@ "volatile_acidity" :> 7000 @@ "citric_acid" :> 0 @@
      "residual_sugar" :> 19000 @@ "chlorides" :> 760 @@ "free_sulfur_dioxide" :> 110000 @@
      "total_sulfur_dioxide" :> 340000 @@ "density" :> 9978 @@ "ph" :> 35100 @@
      "sulphates" :> 5600 @@ "alcohol" :> 94000 )

\* max_value of each st.slider
SliderMax ==
    ( "fixed_acidity" :> 160000 @@ "volatile_acidity" :> 16000 @@ "citric_acid" :> 10000 @@
      "residual_sugar" :> 160000 @@ "chlorides" :> 6200 @@ "free_sulfur_dioxide" :> 720000 @@
      "total_sulfur_dioxide" :> 2890000 @@ "density" :> 10040 @@ "ph" :> 40000 @@
      "sulphates" :> 20000 @@ "alcohol" :> 150000 )

\* the callback with the assignment of alcohol left out
load_good_wine_preset_partial(ss) ==
    [ss EXCEPT !["fixed_acidity"] = 66000,
               !["volatile_acidity"] = 5200,
               !["citric_acid"] = 800,
               !["residual_sugar"] = 24000,
               !["chlorides"] = 700,
               !["free_sulfur_dioxide"] = 130000,
               !["total_sulfur_dioxide"] = 320000,
               !["density"] = 9955,
               !["ph"] = 34200,
               !["sulphates"] = 6200]

\* the on_click callback of the "Load 'Good' Wine Example" button
load_good_wine_preset(ss) ==
    [ss EXCEPT !["fixed_acidity"] = 66000,
               !["volatile_acidity"] = 5200,
               !["citric_acid"] = 800,
               !["residual_sugar"] = 24000,
               !["chlorides"] = 700,
               !["free_sulfur_dioxide"] = 130000,
               !["total_sulfur_dioxide"] = 320000,
               !["density"] = 9955,
               !["ph"] = 34200,
               !["sulphates"] = 6200,
               !["alcohol"] = 114000]

\* the on_click callback of the "Load 'Not Good' Wine Example" button
load_not_good_wine_preset(ss) ==
    [ss EXCEPT !["fixed_acidity"] = 74000,
               !["volatile_acidity"] = 7000,
               !["citric_acid"] = 0,
               !["residual_sugar"] = 19000,
               !["chlorides"] = 760,
               !["free_sulfur_dioxide"] = 110000,
               !["total_sulfur_dioxide"] = 340000,
               !["density"] = 9978,
               !["ph"] = 35100,
               !["sulphates"] = 5600,
               !["alcohol"] = 94000]

EmptySession == [k \in KeySet |-> Absent]

(***************************************************************************)
(* The two artifacts.  They are produced outside the repository;  the      *)
(* script reads the attributes below.                                      *)
(***************************************************************************)
FileStates == {"ok", "absent", "corrupt"}

Reverse(s) == [i \in 1..Len(s) |-> s[Len(s) + 1 - i]]

\* orders scaler.feature_names_in_ can have: the script's literal order or another
FeatureOrders == { default_values_keys, Reverse(default_values_keys) }

\* per-feature centre and spread the scaler was fitted with
FittedMean ==
    ( "fixed_acidity" :> 83000 @@ "volatile_acidity" :> 5300 @@ "citric_acid" :> 2700 @@
      "residual_sugar" :> 25000 @@ "chlorides" :> 870 @@ "free_sulfur_dioxide" :> 159000 @@
      "total_sulfur_dioxide" :> 465000 @@ "density" :> 9967 @@ "ph" :> 33100 @@
      "sulphates" :> 6600 @@ "alcohol" :> 104000 )

FittedScale ==
    ( "fixed_acidity" :> 17000 @@ "volatile_acidity" :> 1800 @@ "citric_acid" :> 1900 @@
      "residual_sugar" :> 14000 @@ "chlorides" :> 470 @@ "free_sulfur_dioxide" :> 105000 @@
      "total_sulfur_dioxide" :> 329000 @@ "density" :> 19 @@ "ph" :> 1500 @@
      "sulphates" :> 1700 @@ "alcohol" :> 11000 )

\* strict_names: transform raises when the frame's column names are not in the
\* fitted order (scikit-learn >= 1.2);  otherwise it only warns and goes by position
Scalers ==
    { sc \in [ feature_names_in_ : FeatureOrders, strict_names : BOOLEAN ] :
        sc.feature_names_in_ = default_values_keys => sc.strict_names }

\* classes_ is sorted by label, so 'good' is the second class next to 'bad' and the
\* first class next to 'not good'
ClassLists == { <<"bad", "good">>, <<"good", "not good">> }

ImportanceLists ==
    { <<8, 11, 7, 6, 9, 5, 10, 8, 4, 13, 19>> }

IndexOf(s, x) == CHOOSE i \in 1..Len(s) : s[i] = x

\* fault: the call that raises inside the classifier, if any.  split: the column
\* of the training matrix the tree tests, the column 'alcohol' had in training.
Classifiers(order) ==
    [ classes_ : ClassLists,
      fault : {"none", "predict", "predict_proba"},
      split : { IndexOf(order, "alcohol") },
      feature_importances_ : ImportanceLists ]

(***************************************************************************)
(* joblib.load of the two artifacts, inside try / except FileNotFoundError *)
(* with st.error and st.stop in the handler.  A missing file raises        *)
(* FileNotFoundError;  a corrupt one raises some other exception, which    *)
(* the handler does not catch and which ends the script run.               *)
(***************************************************************************)
LoadOne(f) ==
    IF f = "absent" THEN "FileNotFoundError"
    ELSE IF f = "corrupt" THEN "OtherError"
    ELSE "loaded"

\* the except branch without st.stop(): the script carries on after st.error
LoadArtifacts_no_stop(mf, sf) ==
    LET first == LoadOne(mf)
        raised == IF first # "loaded" THEN first ELSE LoadOne(sf)
    IN  IF raised = "OtherError" THEN "exception" ELSE "ok"

LoadArtifacts(mf, sf) ==
    LET first == LoadOne(mf)
        raised == IF first # "loaded" THEN first ELSE LoadOne(sf)
    IN  IF raised = "FileNotFoundError" THEN "stopped"
        ELSE IF raised = "OtherError" THEN "exception"
        ELSE "ok"

\* the loop without its  if key not in st.session_state  test
InitSessionState_overwrite(ss) == [k \in KeySet |-> default_values[k]]

\* for key, value in default_values.items(): if key not in st.session_state: ...
InitSessionState(ss) ==
    [k \in KeySet |-> IF ss[k] = Absent THEN default_values[k] ELSE ss[k]]

(***************************************************************************)
(* The collaborators' methods.                                             *)
(***************************************************************************)
FrameNames(frame) == [i \in 1..Len(frame) |-> frame[i].name]

\* scaler.transform raises on a frame whose columns are not the fitted ones
TransformRaises(sc, frame) ==
    \/ Len(frame) # Len(sc.feature_names_in_)
    \/ sc.strict_names /\ FrameNames(frame) # sc.feature_names_in_

\* column i is scaled with the statistics of the i-th fitted feature
transform(sc, frame) ==
    [i \in 1..Len(frame) |->
        LET n == sc.feature_names_in_[i]
        IN  ((frame[i].value - FittedMean[n]) * 100) \div FittedScale[n]]

\* probability of the class 'good' for a scaled row
GoodProbability(m, X) == IF X[m.split] > 0 THEN 87346 ELSE 21004

\* model.predict_proba(X)[0]: one probability per class, in classes_ order
predict_proba(m, X) ==
    [j \in 1..Len(m.classes_) |->
        IF m.classes_[j] = "good" THEN GoodProbability(m, X)
        ELSE 100000 - GoodProbability(m, X)]

\* model.predict(X)[0]: the class with the largest probability, the first on a tie
predict(m, X) ==
    LET p == predict_proba(m, X)
        best == CHOOSE j \in 1..Len(p) :
                    /\ \A k \in 1..Len(p) : p[k] <= p[j]
                    /\ \A k \in 1..(j - 1) : p[k] < p[j]
    IN  m.classes_[best]

\* f"{p*100:.2f}": a probability as a percentage rounded to two decimals
Percent2(p) == (p + 5) \div 10

(***************************************************************************)
(* Prediction Logic: the body of  if st.button('Predict Wine Quality'):    *)
(***************************************************************************)
NoPred == [label |-> "none", proba |-> <<>>]
NoShown == [verdict |-> "none", good |-> Absent, not_good |-> Absent]
Call(fn, ok) == [fn |-> fn, ok |-> ok]

feature_names == default_values_keys

\* the values taken from the sliders' initial values in the run that follows the
\* 'good' preset callback, from session state otherwise
input_values_stale(ss) ==
    [i \in 1..Len(feature_names) |->
        IF event.kind = "good" THEN default_values[feature_names[i]]
        ELSE ss[feature_names[i]]]

input_values(ss) == [i \in 1..Len(feature_names) |-> ss[feature_names[i]]]

input_data(ss) ==
    [i \in 1..Len(feature_names) |->
        [name |-> feature_names[i], value |-> input_values(ss)[i]]]

Verdict(label) == IF label = "good" THEN "GOOD" ELSE "NOT GOOD"

\* the lines st.success / st.error / st.info print
Display(label, proba) ==
    [verdict |-> Verdict(label),
     good |-> Percent2(proba[2]),
     not_good |-> Percent2(proba[1])]

NotRun ==
    [status |-> "ok", calls |-> <<>>, handed |-> <<>>, pred |-> NoPred, shown |-> NoShown]

\* the three calls wrapped in try / except that falls back to a NOT GOOD verdict
PredictionLogic_fallback(ss, sc, m) ==
    LET frame == input_data(ss)
        X == transform(sc, frame)
        failed == TransformRaises(sc, frame) \/ m.fault # "none"
    IN  [status |-> "ok",
         calls |-> IF TransformRaises(sc, frame) THEN <<Call("transform", FALSE)>>
                   ELSE IF m.fault = "predict"
                        THEN <<Call("transform", TRUE), Call("predict", FALSE)>>
                   ELSE <<Call("transform", TRUE), Call("predict", TRUE),
                          Call("predict_proba", m.fault = "none")>>,
         handed |-> frame,
         pred |-> IF failed THEN NoPred
                  ELSE [label |-> predict(m, X), proba |-> predict_proba(m, X)],
         shown |-> IF failed THEN [verdict |-> "NOT GOOD", good |-> 0, not_good |-> 10000]
                   ELSE Display(predict(m, X), predict_proba(m, X))]

PredictionLogic(ss, sc, m) ==
    LET frame == input_data(ss)
        X == transform(sc, frame)
    IN  IF TransformRaises(sc, frame) THEN
            [status |-> "exception", calls |-> <<Call("transform", FALSE)>>,
             handed |-> frame, pred |-> NoPred, shown |-> NoShown]
        ELSE IF m.fault = "predict" THEN
            [status |-> "exception",
             calls |-> <<Call("transform", TRUE), Call("predict", FALSE)>>,
             handed |-> frame, pred |-> NoPred, shown |-> NoShown]
        ELSE IF m.fault = "predict_proba" THEN
            [status |-> "exception",
             calls |-> <<Call("transform", TRUE), Call("predict", TRUE),
                         Call("predict_proba", FALSE)>>,
             handed |-> frame,
             pred |-> [label |-> predict(m, X), proba |-> <<>>],
             shown |-> NoShown]
        ELSE
            [status |-> "ok",
             calls |-> <<Call("transform", TRUE), Call("predict", TRUE),
                         Call("predict_proba", TRUE)>>,
             handed |-> frame,
             pred |-> [label |-> predict(m, X), proba |-> predict_proba(m, X)],
             shown |-> Display(predict(m, X), predict_proba(m, X))]

\* the block run unconditionally, without the  if st.button(...)
ButtonPressed_always(ev) == TRUE

\* st.button returns True only in the run its click caused
ButtonPressed(ev) == ev.kind = "predict"

(***************************************************************************)
(* Feature Importance Section.  sort_values uses pandas' default sort      *)
(* kind, quicksort, which does not promise an order among equal keys:      *)
(* every descending order of the rows is a possible result.                *)
(***************************************************************************)
\* ascending=True in place of ascending=False
RECURSIVE SortAscending(_, _)
SortAscending(rows, S) ==
    IF S = {} THEN { <<>> }
    ELSE LET top == { i \in S : \A j \in S : rows[i].importance <= rows[j].importance }
         IN  UNION { { <<rows[i]>> \o t : t \in SortAscending(rows, S \ {i}) } : i \in top }

RECURSIVE SortDescending(_, _)
SortDescending(rows, S) ==
    IF S = {} THEN { <<>> }
    ELSE LET top == { i \in S : \A j \in S : rows[j].importance <= rows[i].importance }
         IN  UNION { { <<rows[i]>> \o t : t \in SortDescending(rows, S \ {i}) } : i \in top }

SortValues(rows) == SortDescending(rows, DOMAIN rows)

\* The frame depends on the two artifacts only:  its possible values, one table
\* entry per pair of feature_names_in_ and feature_importances_.
SortedFrames ==
    [o \in FeatureOrders, imp \in ImportanceLists |->
        SortValues([i \in 1..Len(o) |-> [feature |-> o[i], importance |-> imp[i]]])]

feature_importances(sc, m) == SortedFrames[sc.feature_names_in_, m.feature_importances_]

(***************************************************************************)
(* One script run, from session state ss as the event left it.             *)
(***************************************************************************)
GoodSample == load_good_wine_preset(EmptySession)
NotGoodSample == load_not_good_wine_preset(EmptySession)
Samples == ( "good" :> GoodSample @@ "not_good" :> NotGoodSample )

NoOutcome == [status |-> "none", shown |-> NoShown]

Remember(mem, ev, ss, r) ==
    [p \in DOMAIN mem |->
        IF ButtonPressed(ev) /\ ss = Samples[p] /\ mem[p] = NoOutcome
        THEN [status |-> r.status, shown |-> r.shown]
        ELSE mem[p]]

ScriptRun(ev, ss) ==
    LET load == LoadArtifacts(modelFile, scalerFile)
        s1 == InitSessionState(ss)
        r == IF ButtonPressed(ev) THEN PredictionLogic(s1, scaler, model) ELSE NotRun
    IN  /\ event' = ev
        /\ UNCHANGED <<modelFile, scalerFile, model, scaler>>
        /\ IF load # "ok" THEN
               /\ session' = ss
               /\ status' = load
               /\ widgets' = FALSE
               /\ calls' = <<>>
               /\ handed' = <<>>
               /\ pred' = NoPred
               /\ shown' = NoShown
               /\ ranked' = <<>>
               /\ memo' = memo
           ELSE
               /\ session' = s1
               /\ status' = r.status
               /\ widgets' = TRUE
               /\ calls' = r.calls
               /\ handed' = r.handed
               /\ pred' = r.pred
               /\ shown' = r.shown
               /\ ranked' \in (IF r.status = "ok" THEN feature_importances(scaler, model)
                                ELSE { <<>> })
               /\ memo' = Remember(memo, ev, s1, r)

Event(kind, field) == [kind |-> kind, field |-> field]

(***************************************************************************)
(* Events.                                                                 *)
(***************************************************************************)
\* values a slider is moved to: its upper end
SliderInputs(k) == { SliderMax[k] }

\* a browser opens the page: first run of a new session
Start ==
    /\ status = "none"
    /\ nChanges' = nChanges
    /\ ScriptRun(Event("start", "none"), session)

\* the user reruns the script without touching a widget
Rerun ==
    /\ status # "none"
    /\ nChanges' = nChanges
    /\ ScriptRun(Event("rerun", "none"), session)

\* the user moves one slider: the widget writes its key, the script reruns
SliderChange ==
    /\ widgets
    /\ nChanges < MaxSliderChanges
    /\ \E k \in KeySet : \E v \in SliderInputs(k) :
          /\ v # session[k]
          /\ nChanges' = nChanges + 1
          /\ ScriptRun(Event("slider", k), [session EXCEPT ![k] = v])

LoadGood ==
    /\ widgets
    /\ nChanges' = nChanges
    /\ ScriptRun(Event("good", "none"), load_good_wine_preset(session))

LoadNotGood ==
    /\ widgets
    /\ nChanges' = nChanges
    /\ ScriptRun(Event("not_good", "none"), load_not_good_wine_preset(session))

\* the Predict button wired to a preset callback by copy and paste
Predict_with_callback ==
    /\ widgets
    /\ nChanges' = nChanges
    /\ ScriptRun(Event("predict", "none"), load_not_good_wine_preset(session))

Predict ==
    /\ widgets
    /\ nChanges' = nChanges
    /\ ScriptRun(Event("predict", "none"), session)

Init ==
    /\ modelFile \in FileStates
    /\ scalerFile \in FileStates
    /\ scaler \in Scalers
    /\ model \in Classifiers(scaler.feature_names_in_)
    /\ session = EmptySession
    /\ event = Event("none", "none")
    /\ status = "none"
    /\ widgets = FALSE
    /\ calls = <<>>
    /\ handed = <<>>
    /\ pred = NoPred
    /\ shown = NoShown
    /\ ranked = <<>>
    /\ nChanges = 0
    /\ memo = [p \in DOMAIN Samples |-> NoOutcome]

Next ==
    \/ Start
    \/ Rerun
    \/ SliderChange
    \/ LoadGood
    \/ LoadNotGood
    \/ Predict

Spec == Init /\ [][Next]_vars

(***************************************************************************)
(* Properties.                                                             *)
(***************************************************************************)
Presets == {"good", "not_good"}
Started == status # "none"
LoadFailed == modelFile # "ok" \/ scalerFile # "ok"
CallNames == [i \in 1..Len(calls) |-> calls[i].fn]
IsPrefix(s, t) == Len(s) <= Len(t) /\ \A i \in 1..Len(s) : s[i] = t[i]

\* the two example samples as the specification lists them
SpecGoodExample ==
    ( "fixed_acidity" :> 66000 @@ "volatile_acidity" :> 5200 @@ "citric_acid" :> 800 @@
      "residual_sugar" :> 24000 @@ "chlorides" :> 700 @@ "free_sulfur_dioxide" :> 130000 @@
      "total_sulfur_dioxide" :> 320000 @@ "density" :> 9955 @@ "ph" :> 34200 @@
      "sulphates" :> 6200 @@ "alcohol" :> 114000 )

SpecNotGoodExample ==
    ( "fixed_acidity" :> 74000 @@ "volatile_acidity" :> 7000 @@ "citric_acid" :> 0 @@
      "residual_sugar" :> 19000 @@ "chlorides" :> 760 @@ "free_sulfur_dioxide" :> 110000 @@
      "total_sulfur_dioxide" :> 340000 @@ "density" :> 9978 @@ "ph" :> 35100 @@
      "sulphates" :> 5600 @@ "alcohol" :> 94000 )

SpecExample(kind) == IF kind = "good" THEN SpecGoodExample ELSE SpecNotGoodExample

\* frame f carries exactly the eleven named values of sample s
FrameCarries(f, s) ==
    /\ Len(f) = Cardinality(KeySet)
    /\ { f[i].name : i \in 1..Len(f) } = KeySet
    /\ \A i \in 1..Len(f) : f[i].value = s[f[i].name]

\* C1: whenever a run hands a frame to scaler.transform, position i of the frame
\* holds the name and the session value of the i-th entry of the scaler's own
\* feature_names_in_.
C1_FrameInScalerOrder ==
    handed # <<>> =>
        /\ Len(handed) = Len(scaler.feature_names_in_)
        /\ \A i \in 1..Len(handed) :
              /\ handed[i].name = scaler.feature_names_in_[i]
              /\ handed[i].value = session[scaler.feature_names_in_[i]]

\* C2: after a run in which an artifact was absent or corrupt, the run has ended
\* with an error, no widget was rendered, session state was not initialized, no
\* call on the scaler or the classifier was made and no result is displayed.
C2_FailedLoadServesNothing ==
    (Started /\ LoadFailed) =>
        /\ status \in {"stopped", "exception"}
        /\ ~widgets
        /\ session = EmptySession
        /\ calls = <<>>
        /\ handed = <<>>
        /\ pred = NoPred
        /\ shown = NoShown

C2_Witness ==
    /\ modelFile = "ok"
    /\ scalerFile = "corrupt"
    /\ status = "exception"
    /\ event.kind = "rerun"

\* C3: a Predict run that directly follows a preset event builds its frame from
\* exactly the eleven values of that preset's example in the specification.
C3_PresetThenPredict ==
    [][ (event.kind \in Presets /\ event'.kind = "predict")
            => FrameCarries(handed', SpecExample(event.kind)) ]_vars

C3_Witness ==
    /\ event.kind = "predict"
    /\ nChanges > 0
    /\ session = SpecGoodExample
    /\ FrameCarries(handed, SpecGoodExample)

\* C4: a call on the scaler or the classifier that raises is the last call of its
\* run, the run ends with the exception, and no verdict and no confidence line is
\* displayed.
C4_FailureAborts ==
    \A i \in 1..Len(calls) :
        ~calls[i].ok =>
            /\ i = Len(calls)
            /\ status = "exception"
            /\ shown = NoShown

C4_Witness ==
    /\ Len(calls) = 3
    /\ ~calls[3].ok
    /\ pred.label # "none"
    /\ shown = NoShown

C6_PredictHasNoSideEffect ==
    [][ event'.kind = "predict" =>
            /\ session' = session
            /\ model' = model /\ scaler' = scaler
            /\ modelFile' = modelFile /\ scalerFile' = scalerFile ]_vars

C6_Witness ==
    /\ event.kind = "predict"
    /\ status = "ok"
    /\ nChanges > 0
    /\ session # NotGoodSample
    /\ session # GoodSample

GoodClassProbability == pred.proba[IndexOf(model.classes_, "good")]

\* a displayed percentage is the probability p rounded to two decimals
Near(shownValue, p) == shownValue * 10 - p <= 5 /\ p - shownValue * 10 <= 5

\* C8: the verdict displayed is GOOD exactly when predict returned 'good', the
\* value displayed for 'Good' is the probability of the class 'good' and the value
\* displayed for 'Not Good' is the probability of the other class, each rounded to
\* two decimals of a percent.
C8_ConfidencesMatchClasses ==
    shown # NoShown =>
        /\ (shown.verdict = "GOOD") <=> (pred.label = "good")
        /\ shown.verdict \in {"GOOD", "NOT GOOD"}
        /\ Near(shown.good, GoodClassProbability)
        /\ Near(shown.not_good, 100000 - GoodClassProbability)

\* the pairs of the positional zip of the names and the scores
ZippedRows ==
    { [feature |-> scaler.feature_names_in_[i],
       importance |-> model.feature_importances_[i]] :
         i \in 1..Len(scaler.feature_names_in_) }

InputPosition(row) == IndexOf(scaler.feature_names_in_, row.feature)

\* C9 (amended): the ranked frame holds each (feature, importance) pair of the
\* positional zip exactly once and is sorted non-increasing by importance.
C9_SortedPermutation ==
    ranked # <<>> =>
        /\ Len(ranked) = Len(scaler.feature_names_in_)
        /\ { ranked[i] : i \in 1..Len(ranked) } = ZippedRows
        /\ \A i \in 1..(Len(ranked) - 1) : ranked[i].importance >= ranked[i + 1].importance

TiesKeepInputOrder ==
    \A i, j \in 1..Len(ranked) :
        (i < j /\ ranked[i].importance = ranked[j].importance)
            => InputPosition(ranked[i]) < InputPosition(ranked[j])

\* C9 as stated: in addition, rows with equal importance keep their input order.
C9_StableSortedPermutation == C9_SortedPermutation /\ TiesKeepInputOrder

C9_Witness ==
    /\ ranked # <<>>
    /\ scaler.feature_names_in_ # default_values_keys
    /\ \E i \in 1..(Len(ranked) - 1) : ranked[i].importance = ranked[i + 1].importance

AllKeysPresent == \A k \in KeySet : session[k] # Absent

\* a step taken with the widgets on the page changes a key only by that key's
\* slider or by a preset
C10_Step ==
    widgets =>
        /\ \A k \in KeySet :
              session'[k] # session[k] =>
                  \/ event'.kind = "slider" /\ event'.field = k
                  \/ event'.kind \in Presets
        /\ event'.kind = "slider" => session'[event'.field] # session[event'.field]
        /\ event'.kind \in {"rerun", "predict"} => session' = session

\* C10: once a run has rendered the widgets all eleven keys are present;  from
\* then on a key's value changes only in a run caused by a change of that key's
\* slider or by a preset button, a slider change does change its key, and a rerun
\* or a Predict run changes no key.
C10_KeysPresentAndKept ==
    [][ (widgets' => AllKeysPresent') /\ C10_Step ]_vars

C10_Witness ==
    /\ event.kind \in {"rerun", "predict"}
    /\ nChanges > 0
    /\ AllKeysPresent
    /\ session # NotGoodSample
    /\ session # GoodSample

====
